---- MODULE Spec2Model ----
(***************************************************************************)
(* Model of app.py: the per-file loop of main() with its extension         *)
(* dispatch, the five convert_* extractors, the size comparison and        *)
(* format_file_size.                                                       *)
(*                                                                         *)
(* A text is a sequence of characters; a character is a one-token string.  *)
(* The tokens "e_acute", "euro" and "emoji" stand for characters whose     *)
(* UTF-8 encodings take 2, 3 and 4 bytes.  An uploaded file is the record  *)
(*   [name, size, pos, parsed]                                             *)
(* where size is the byte length of the upload, pos the position its       *)
(* stream is at when main() receives it, and parsed what the parsing       *)
(* library makes of the bytes: either it raises (ok = FALSE, msg = str(e)) *)
(* or it yields pages / paragraphs / slides / sheets / text nodes.         *)
(***************************************************************************)
EXTENDS Integers, Sequences, FiniteSets, TLC

VARIABLES uploaded_files, idx, outcomes, calls, keys, crashed

vars == <<uploaded_files, idx, outcomes, calls, keys, crashed>>

(***************************************************************************)
(* Bounds of the model.                                                    *)
(***************************************************************************)
MaxBatch == 3
MaxPages == 3
MaxSlides == 2
MaxShapes == 2
MaxSmallSize == 12

(***************************************************************************)
(* Texts.                                                                  *)
(***************************************************************************)
Width(c) ==
    CASE c = "e_acute" -> 2
      [] c = "euro" -> 3
      [] c = "emoji" -> 4
      [] OTHER -> 1

RECURSIVE Utf8Len(_)
Utf8Len(text) ==
    IF text = <<>> THEN 0 ELSE Width(Head(text)) + Utf8Len(Tail(text))

IsSpace(c) == c \in {" ", "\n", "\t"}

RECURSIVE LStrip(_)
LStrip(text) ==
    IF text /= <<>> /\ IsSpace(Head(text)) THEN LStrip(Tail(text)) ELSE text

RECURSIVE RStrip(_)
RStrip(text) ==
    IF text /= <<>> /\ IsSpace(text[Len(text)])
    THEN RStrip(SubSeq(text, 1, Len(text) - 1))
    ELSE text

\* str.strip()
Strip(text) == RStrip(LStrip(text))

\* sep.join(list)
RECURSIVE Join(_, _)
Join(sep, list) ==
    IF list = <<>> THEN <<>>
    ELSE IF Len(list) = 1 THEN list[1]
    ELSE list[1] \o sep \o Join(sep, Tail(list))

UpperCase == [P |-> "p", D |-> "d", F |-> "f", O |-> "o", C |-> "c", X |-> "x",
              T |-> "t", L |-> "l", S |-> "s", H |-> "h", M |-> "m", A |-> "a"]

\* the extension compared as typed, without .lower()
lower_omitted(text) == text

\* str.lower()
lower(text) ==
    [k \in 1..Len(text) |->
        IF text[k] \in DOMAIN UpperCase THEN UpperCase[text[k]] ELSE text[k]]

\* str.rfind(c) as a 1-based index, 0 when c does not occur
RFind(p, c) ==
    LET hits == {k \in 1..Len(p) : p[k] = c}
    IN IF hits = {} THEN 0 ELSE CHOOSE k \in hits : \A j \in hits : j <= k

\* os.path.splitext(p): <<root, ext>>; the extension starts at the last dot
\* of the last path component, and leading dots of the component start none
splitext(p) ==
    LET sepIndex == RFind(p, "/")
        dotIndex == RFind(p, ".")
    IN IF /\ dotIndex > sepIndex
          /\ \E k \in (sepIndex + 1)..(dotIndex - 1) : p[k] /= "."
       THEN <<SubSeq(p, 1, dotIndex - 1), SubSeq(p, dotIndex, Len(p))>>
       ELSE <<p, <<>> >>

(***************************************************************************)
(* format_file_size: the rendered string is the record [unit, value];      *)
(* value is the integer for "bytes" and the number of hundredths shown     *)
(* for "KB" and "MB" ("2.00 KB" is [unit |-> "KB", value |-> 200]).        *)
(***************************************************************************)
KiB == 1024

\* f"{num/den:.2f}" in hundredths: den is a power of two, so the float
\* quotient is exact and the format rounds it half to even
Fixed2(num, den) ==
    LET q == (num * 100) \div den
        r == (num * 100) % den
    IN IF 2 * r > den THEN q + 1
       ELSE IF 2 * r = den THEN q + (q % 2)
       ELSE q

\* the thresholds compared with <= instead of <
format_file_size_inclusive(size_in_bytes) ==
    IF size_in_bytes <= KiB
    THEN [unit |-> "bytes", value |-> size_in_bytes]
    ELSE IF size_in_bytes <= KiB * KiB
    THEN [unit |-> "KB", value |-> Fixed2(size_in_bytes, KiB)]
    ELSE [unit |-> "MB", value |-> Fixed2(size_in_bytes, KiB * KiB)]

format_file_size(size_in_bytes) ==
    IF size_in_bytes < KiB
    THEN [unit |-> "bytes", value |-> size_in_bytes]
    ELSE IF size_in_bytes < KiB * KiB
    THEN [unit |-> "KB", value |-> Fixed2(size_in_bytes, KiB)]
    ELSE [unit |-> "MB", value |-> Fixed2(size_in_bytes, KiB * KiB)]

(***************************************************************************)
(* The extractors.  Each returns the converted text; an exception of the   *)
(* parsing library is caught and turned into the text "Error reading ..."  *)
(***************************************************************************)
ErrPDF == <<"E","r","r","o","r"," ","r","e","a","d","i","n","g"," ","P","D","F",":"," ">>
ErrDOCX == <<"E","r","r","o","r"," ","r","e","a","d","i","n","g"," ","D","O","C","X",":"," ">>
ErrPPTX == <<"E","r","r","o","r"," ","r","e","a","d","i","n","g"," ","P","P","T","X",":"," ">>
ErrExcel == <<"E","r","r","o","r"," ","r","e","a","d","i","n","g"," ","E","x","c","e","l",":"," ">>
ErrHTML == <<"E","r","r","o","r"," ","r","e","a","d","i","n","g"," ","H","T","M","L",":"," ">>
SheetHeader == <<"#","#","#"," ","S","h","e","e","t",":"," ">>

\* the loop of convert_pdf over reader.pages[k..]: content is appended
\* when it is truthy (a non-empty string)
RECURSIVE PdfLoop(_, _, _)
PdfLoop(pages, k, text) ==
    IF k > Len(pages) THEN text
    ELSE LET content == pages[k]
         IN IF content /= <<>>
            THEN PdfLoop(pages, k + 1, Append(text, content))
            ELSE PdfLoop(pages, k + 1, text)

\* every page joined, without the test that skips a page yielding no text
convert_pdf_every_page(file_stream) ==
    IF file_stream.parsed.ok
    THEN Join(<<"\n", "\n">>, file_stream.parsed.pages)
    ELSE ErrPDF \o file_stream.parsed.msg

convert_pdf(file_stream) ==
    IF file_stream.parsed.ok
    THEN Join(<<"\n", "\n">>, PdfLoop(file_stream.parsed.pages, 1, <<>>))
    ELSE ErrPDF \o file_stream.parsed.msg

convert_docx(file_stream) ==
    IF file_stream.parsed.ok
    THEN Join(<<"\n">>, file_stream.parsed.paragraphs)
    ELSE ErrDOCX \o file_stream.parsed.msg

\* the inner loop of convert_pptx over slide.shapes[k..]
RECURSIVE ShapeLoop(_, _, _)
ShapeLoop(shapes, k, text) ==
    IF k > Len(shapes) THEN text
    ELSE LET shape == shapes[k]
         IN IF shape.has_text
            THEN ShapeLoop(shapes, k + 1, Append(text, shape.text))
            ELSE ShapeLoop(shapes, k + 1, text)

\* the outer loop of convert_pptx over prs.slides[k..]
RECURSIVE SlideLoop(_, _, _)
SlideLoop(slides, k, text) ==
    IF k > Len(slides) THEN text
    ELSE SlideLoop(slides, k + 1, ShapeLoop(slides[k], 1, text))

\* the list of texts started afresh for every slide: only the last slide is left
convert_pptx_per_slide(file_stream) ==
    IF file_stream.parsed.ok
    THEN LET slides == file_stream.parsed.slides
         IN IF slides = <<>> THEN <<>>
            ELSE Join(<<"\n">>, ShapeLoop(slides[Len(slides)], 1, <<>>))
    ELSE ErrPPTX \o file_stream.parsed.msg

convert_pptx(file_stream) ==
    IF file_stream.parsed.ok
    THEN Join(<<"\n">>, SlideLoop(file_stream.parsed.slides, 1, <<>>))
    ELSE ErrPPTX \o file_stream.parsed.msg

\* the loop of convert_excel over the sheets; markdown is df.to_markdown()
RECURSIVE SheetLoop(_, _, _)
SheetLoop(sheets, k, output) ==
    IF k > Len(sheets) THEN output
    ELSE SheetLoop(sheets, k + 1,
            output \o <<SheetHeader \o sheets[k].sheet_name, sheets[k].markdown>>)

convert_excel(file_stream) ==
    IF file_stream.parsed.ok
    THEN Join(<<"\n", "\n">>, SheetLoop(file_stream.parsed.sheets, 1, <<>>))
    ELSE ErrExcel \o file_stream.parsed.msg

\* soup.get_text(separator="\n"): the text nodes joined by the separator
convert_html(file_stream) ==
    IF file_stream.parsed.ok
    THEN Join(<<"\n">>, file_stream.parsed.nodes)
    ELSE ErrHTML \o file_stream.parsed.msg

(***************************************************************************)
(* The uploaded file as a stream: seek and tell.                           *)
(***************************************************************************)
Seek(stream, offset, whence) ==
    IF whence = 2
    THEN [stream EXCEPT !.pos = stream.size + offset]
    ELSE [stream EXCEPT !.pos = offset]

Tell(stream) == stream.pos

\* the size measured without the seek(0) that rewinds the stream
MeasureSizeNoRewind(stream) ==
    LET at_end == Seek(stream, 0, 2)
    IN [original_size |-> Tell(at_end), stream |-> at_end]

\* lines 100-102: seek to the end, take the position, seek back to 0
MeasureSize(stream) ==
    LET at_end == Seek(stream, 0, 2)
        original_size == Tell(at_end)
    IN [original_size |-> original_size, stream |-> Seek(at_end, 0, 0)]

(***************************************************************************)
(* The if/elif chain of main(): the branch taken for an extension (tag)    *)
(* and the extractors that branch invokes, in order.                       *)
(***************************************************************************)
ExtPdf == <<".", "p", "d", "f">>
ExtDocx == <<".", "d", "o", "c", "x">>
ExtPptx == <<".", "p", "p", "t", "x">>
ExtXlsx == <<".", "x", "l", "s", "x">>
ExtHtml == <<".", "h", "t", "m", "l">>
ExtHtm == <<".", "h", "t", "m">>

\* the final else handing the file to the HTML extractor before reporting it
DispatchFallback(file_ext) ==
    IF file_ext = ExtPdf THEN [tag |-> "PDF", invoked |-> <<"convert_pdf">>]
    ELSE IF file_ext = ExtDocx THEN [tag |-> "DOCX", invoked |-> <<"convert_docx">>]
    ELSE IF file_ext = ExtPptx THEN [tag |-> "PPTX", invoked |-> <<"convert_pptx">>]
    ELSE IF file_ext = ExtXlsx THEN [tag |-> "XLSX", invoked |-> <<"convert_excel">>]
    ELSE IF file_ext \in {ExtHtml, ExtHtm}
    THEN [tag |-> "HTML", invoked |-> <<"convert_html">>]
    ELSE [tag |-> "Unsupported", invoked |-> <<"convert_html">>]

Dispatch(file_ext) ==
    IF file_ext = ExtPdf THEN [tag |-> "PDF", invoked |-> <<"convert_pdf">>]
    ELSE IF file_ext = ExtDocx THEN [tag |-> "DOCX", invoked |-> <<"convert_docx">>]
    ELSE IF file_ext = ExtPptx THEN [tag |-> "PPTX", invoked |-> <<"convert_pptx">>]
    ELSE IF file_ext = ExtXlsx THEN [tag |-> "XLSX", invoked |-> <<"convert_excel">>]
    ELSE IF file_ext \in {ExtHtml, ExtHtm}
    THEN [tag |-> "HTML", invoked |-> <<"convert_html">>]
    ELSE [tag |-> "Unsupported", invoked |-> <<>>]

Call(extractor, file_stream) ==
    CASE extractor = "convert_pdf" -> convert_pdf(file_stream)
      [] extractor = "convert_docx" -> convert_docx(file_stream)
      [] extractor = "convert_pptx" -> convert_pptx(file_stream)
      [] extractor = "convert_excel" -> convert_excel(file_stream)
      [] extractor = "convert_html" -> convert_html(file_stream)

\* the emptiness test without the strip()
NoTextUnstripped(converted_text) == converted_text = <<>>

\* line 120: not converted_text or converted_text.strip() == ""
NoText(converted_text) ==
    converted_text = <<>> \/ Strip(converted_text) = <<>>

\* the size taken as the number of characters
EncodedLenInChars(converted_text) == Len(converted_text)

\* line 124: len(converted_text.encode('utf-8'))
EncodedLen(converted_text) == Utf8Len(converted_text)

\* lines 143-146: the reduction as the exact fraction num/den
Reduction(converted_bytes, original_size) ==
    IF original_size > 0
    THEN [num |-> (original_size - converted_bytes) * 100, den |-> original_size]
    ELSE [num |-> 0, den |-> 1]

\* line 131: the key of the preview widget
WidgetKey(file_name) == <<"t", "e", "x", "t", "_">> \o file_name

ExtMd == <<".", "m", "d">>
ExtTxt == <<".", "t", "x", "t">>

(***************************************************************************)
(* One iteration of the loop of main() over uploaded_files.                *)
(*                                                                         *)
(* Streamlit refuses a second widget with a key already used in the same   *)
(* run: st.text_area raises, nothing in main() catches it and the run of   *)
(* the script ends there (crashed).                                        *)
(***************************************************************************)
ProcessFile ==
    /\ ~crashed
    /\ idx <= Len(uploaded_files)
    /\ LET uploaded_file == uploaded_files[idx]
           file_name == uploaded_file.name
           file_ext == lower(splitext(file_name)[2])
           measured == MeasureSize([size |-> uploaded_file.size,
                                    pos |-> uploaded_file.pos])
           original_size == measured.original_size
           branch == Dispatch(file_ext)
           new_calls == [k \in 1..Len(branch.invoked) |->
                            [doc |-> idx, extractor |-> branch.invoked[k],
                             pos |-> measured.stream.pos,
                             size |-> measured.stream.size]]
           converted_text ==
               IF branch.invoked = <<>> THEN <<>>
               ELSE Call(branch.invoked[Len(branch.invoked)], uploaded_file)
           converted_bytes == EncodedLen(converted_text)
           base_name == splitext(file_name)[1]
           reduction == Reduction(converted_bytes, original_size)
       IN /\ calls' = calls \o new_calls
          /\ IF branch.tag = "Unsupported"
             THEN /\ outcomes' = Append(outcomes,
                        [doc |-> idx, kind |-> "unsupported", tag |-> branch.tag,
                         file_ext |-> file_ext, original_size |-> original_size])
                  /\ idx' = idx + 1
                  /\ UNCHANGED <<keys, crashed>>
             ELSE IF NoText(converted_text)
             THEN /\ outcomes' = Append(outcomes,
                        [doc |-> idx, kind |-> "no_text", tag |-> branch.tag,
                         text |-> converted_text, original_size |-> original_size])
                  /\ idx' = idx + 1
                  /\ UNCHANGED <<keys, crashed>>
             ELSE IF WidgetKey(file_name) \in keys
             THEN /\ crashed' = TRUE
                  /\ UNCHANGED <<outcomes, idx, keys>>
             ELSE /\ outcomes' = Append(outcomes,
                        [doc |-> idx, kind |-> "report", tag |-> branch.tag,
                         text |-> converted_text,
                         downloads |-> <<base_name \o ExtMd, base_name \o ExtTxt>>,
                         original_size |-> original_size,
                         converted_bytes |-> converted_bytes,
                         reduction |-> reduction,
                         table |-> <<format_file_size(original_size),
                                     format_file_size(converted_bytes)>>])
                  /\ keys' = keys \cup {WidgetKey(file_name)}
                  /\ idx' = idx + 1
                  /\ UNCHANGED crashed
    /\ UNCHANGED uploaded_files

Next == ProcessFile

(***************************************************************************)
(* Uploaded files.                                                         *)
(***************************************************************************)
SeqsUpTo(S, n) == UNION {[1..k -> S] : k \in 0..n}

Parsed(pages, paragraphs, slides, sheets, nodes) ==
    [ok |-> TRUE, msg |-> <<>>, pages |-> pages, paragraphs |-> paragraphs,
     slides |-> slides, sheets |-> sheets, nodes |-> nodes]

Raises(msg) ==
    [ok |-> FALSE, msg |-> msg, pages |-> <<>>, paragraphs |-> <<>>,
     slides |-> <<>>, sheets |-> <<>>, nodes |-> <<>>]

PdfOf(pages) == Parsed(pages, <<>>, <<>>, <<>>, <<>>)
DocxOf(paragraphs) == Parsed(<<>>, paragraphs, <<>>, <<>>, <<>>)
PptxOf(slides) == Parsed(<<>>, <<>>, slides, <<>>, <<>>)
XlsxOf(sheets) == Parsed(<<>>, <<>>, <<>>, sheets, <<>>)
HtmlOf(nodes) == Parsed(<<>>, <<>>, <<>>, <<>>, nodes)

Shape(text) == [has_text |-> TRUE, text |-> text]
Picture == [has_text |-> FALSE, text |-> <<>>]

File(name, size, pos, parsed) ==
    [name |-> name, size |-> size, pos |-> pos, parsed |-> parsed]

\* a batch mixing well-formed, malformed, empty and unsupported uploads
CoreFiles ==
    { File(<<"a", ".", "p", "d", "f">>, 800, 0, PdfOf(<< <<"a">>, <<>>, <<"b">> >>)),
      File(<<"a", ".", "p", "d", "f">>, 2, 2, Raises(<<"x">>)),
      File(<<"a", ".", "p", "d", "f">>, 0, 0, Raises(<<>>)),
      File(<<"b", ".", "h", "t", "m", "l">>, 1, 0, HtmlOf(<< <<"e_acute">> >>)),
      File(<<"b", ".", "h", "t", "m", "l">>, 4, 4, HtmlOf(<<>>)),
      File(<<"b", ".", "h", "t", "m", "l">>, 9, 1, HtmlOf(<< <<" ">>, <<"\t">> >>)),
      File(<<"c", ".", "t", "x", "t">>, 1, 1, Raises(<<>>)),
      File(<<"d", ".", "D", "o", "c", "x">>, 9000, 0, DocxOf(<< <<"a">>, <<"euro">> >>)),
      File(<<"e", ".", "p", "p", "t", "x">>, 30000, 30000,
           PptxOf(<< <<Shape(<<"a">>), Picture>>, <<Shape(<<"b">>)>> >>)),
      File(<<"f", ".", "x", "l", "s", "x">>, 5000, 0,
           XlsxOf(<< [sheet_name |-> <<"s">>, markdown |-> <<"|", "a", "|">>] >>)) }

Init ==
    /\ uploaded_files \in SeqsUpTo(CoreFiles, MaxBatch)
    /\ idx = 1
    /\ outcomes = <<>>
    /\ calls = <<>>
    /\ keys = {}
    /\ crashed = FALSE

Spec == Init /\ [][Next]_vars

(***************************************************************************)
(* Single uploads drawn from wider families: many file names, many sizes,  *)
(* and every small PDF and PPTX structure.                                 *)
(***************************************************************************)
Stems == { <<>>, <<"a">>, <<".">>, <<"a", ".">>, <<".", "a">>, <<".", ".">>,
           <<"a", ".", "p", "d", "f">>, <<"A", ".", "b">> }

Exts == { <<>>, <<".">>, <<"p", "d", "f">>,
          ExtPdf, <<".", "P", "D", "F">>, <<".", "P", "d", "f">>,
          ExtDocx, <<".", "D", "O", "C", "X">>, <<".", "d", "o", "c">>,
          ExtPptx, <<".", "P", "p", "t", "x">>, <<".", "p", "p", "t">>,
          ExtXlsx, <<".", "X", "L", "S", "X">>, <<".", "x", "l", "s">>,
          ExtHtml, <<".", "H", "T", "M", "L">>, ExtHtm, <<".", "H", "t", "m">>,
          <<".", "h", "t", "m", "l", "x">>, <<".", "p", "d", "f", "x">>,
          ExtTxt, ExtMd, <<".", "p", "d">> }

Names == {stem \o ext : stem \in Stems, ext \in Exts}

\* content that every extractor turns into a text with the letter a
AnyOf ==
    Parsed(<< <<"a">> >>, << <<"a">> >>, << <<Shape(<<"a">>)>> >>,
           << [sheet_name |-> <<"a">>, markdown |-> <<>>] >>, << <<"a">> >>)

NameFiles == {File(name, KiB, 0, AnyOf) : name \in Names}

Sizes ==
    {1, 500, 1152, 2048, 5 * KiB * KiB}
    \cup UNION { {8 + k, KiB - 1 - k, KiB + k, KiB * KiB - 1 - k, KiB * KiB + k}
                 : k \in 0..MaxSmallSize }

SizeFiles ==
    {File(<<"b", ".", "h", "t", "m", "l">>, n, pos, HtmlOf(<< <<"a">> >>))
        : n \in Sizes, pos \in {0, 1}}

PageTexts == { <<>>, <<"a">>, <<" ">>, <<"e_acute", "b">> }

PdfFiles ==
    {File(<<"a", ".", "p", "d", "f">>, KiB, 0, PdfOf(pages))
        : pages \in SeqsUpTo(PageTexts, MaxPages)}

Shapes == { Picture, Shape(<<"a">>), Shape(<<"b", "\n">>) }

\* presentations with a shape whose text is empty
EmptyTextSlides ==
    { << <<Shape(<<>>)>> >>,
      << <<Shape(<<>>), Shape(<<"a">>)>>, <<Shape(<<>>)>> >>,
      << <<Picture>>, <<Shape(<<"a">>), Shape(<<>>), Shape(<<"b", "\n">>)>> >> }

PptxFiles ==
    {File(<<"e", ".", "p", "p", "t", "x">>, KiB * KiB, 0, PptxOf(slides))
        : slides \in SeqsUpTo(SeqsUpTo(Shapes, MaxShapes), MaxSlides)
                     \cup EmptyTextSlides}

DocFiles == NameFiles \cup SizeFiles \cup PdfFiles \cup PptxFiles

InitDoc ==
    /\ uploaded_files \in {<<f>> : f \in DocFiles}
    /\ idx = 1
    /\ outcomes = <<>>
    /\ calls = <<>>
    /\ keys = {}
    /\ crashed = FALSE

SpecDoc == InitDoc /\ [][Next]_vars

(***************************************************************************)
(* Properties.                                                             *)
(***************************************************************************)
Processed == 1..Len(outcomes)

CallsOf(i) == SelectSeq(calls, LAMBDA c : c.doc = i)

\* the extractor of document i raised inside its try block
Raised(i) == CallsOf(i) /= <<>> /\ ~uploaded_files[i].parsed.ok

\* C1: the loop produces one outcome per uploaded file, in input order, and
\* no exception leaves it: the run never stops before the last file.
C1_BatchRunsToCompletion ==
    /\ ~crashed
    /\ Len(outcomes) = idx - 1
    /\ \A i \in Processed : outcomes[i].doc = i

\* C2: a file whose extractor raised is reported as a failure: it gets no
\* size report, no preview and no download.
C2_RaisedIsFailure ==
    \A i \in Processed : Raised(i) => outcomes[i].kind /= "report"

\* C3: among the files handed to an extractor, the size report (with preview
\* and downloads) is produced exactly for those whose converted text holds a
\* character that is not whitespace; the others get the "no text" outcome.
HasVisibleChar(text) == \E k \in 1..Len(text) : ~IsSpace(text[k])

C3_ReportIffText ==
    \A i \in Processed :
        outcomes[i].tag /= "Unsupported" =>
            /\ outcomes[i].kind \in {"report", "no_text"}
            /\ outcomes[i].kind = "report" <=> HasVisibleChar(outcomes[i].text)
            /\ outcomes[i].kind = "report" =>
                   /\ outcomes[i].converted_bytes >= 1
                   /\ Len(outcomes[i].downloads) = 2

C3_Witness ==
    \E i, j \in Processed :
        /\ outcomes[i].kind = "no_text"
        /\ outcomes[i].text /= <<>>
        /\ outcomes[j].kind = "report"

\* C4: every file sees at most one extractor invocation; a processed file
\* with a supported tag sees exactly one, of the extractor of its tag, also
\* when that extractor raised; an Unsupported file sees none and is reported
\* as unsupported.
ExtractorFor ==
    [PDF |-> "convert_pdf", DOCX |-> "convert_docx", PPTX |-> "convert_pptx",
     XLSX |-> "convert_excel", HTML |-> "convert_html"]

C4_OneExtractorOnce ==
    /\ \A i \in 1..Len(uploaded_files) : Len(CallsOf(i)) <= 1
    /\ \A i \in Processed :
          IF outcomes[i].tag = "Unsupported"
          THEN CallsOf(i) = <<>> /\ outcomes[i].kind = "unsupported"
          ELSE /\ Len(CallsOf(i)) = 1
               /\ CallsOf(i)[1].extractor = ExtractorFor[outcomes[i].tag]

C4_Witness ==
    \E i, j \in Processed :
        /\ Raised(i)
        /\ Len(CallsOf(i)) = 1
        /\ outcomes[j].tag = "Unsupported"

\* C5: the tag of a file is decided by its name alone: PDF, DOCX, PPTX, XLSX
\* when the name ends, in any letter case, with .pdf, .docx, .pptx, .xlsx
\* after a stem that is not made of dots only; HTML for .html and .htm;
\* Unsupported for every other name.
LowerCase == [p |-> "P", d |-> "D", f |-> "F", o |-> "O", c |-> "C", x |-> "X",
              t |-> "T", l |-> "L", s |-> "S", h |-> "H", m |-> "M"]

SameLetter(c, low) == c = low \/ (low \in DOMAIN LowerCase /\ c = LowerCase[low])

HasExtension(name, ext) ==
    LET stem_len == Len(name) - Len(ext)
    IN /\ stem_len >= 1
       /\ \A k \in 1..Len(ext) : SameLetter(name[stem_len + k], ext[k])
       /\ \E k \in 1..stem_len : name[k] /= "."

ExpectedTag(name) ==
    CASE HasExtension(name, ExtPdf) -> "PDF"
      [] HasExtension(name, ExtDocx) -> "DOCX"
      [] HasExtension(name, ExtPptx) -> "PPTX"
      [] HasExtension(name, ExtXlsx) -> "XLSX"
      [] HasExtension(name, ExtHtml) \/ HasExtension(name, ExtHtm) -> "HTML"
      [] OTHER -> "Unsupported"

C5_TagFromExtension ==
    \A i \in Processed :
        /\ outcomes[i].tag \in {"PDF", "DOCX", "PPTX", "XLSX", "HTML", "Unsupported"}
        /\ outcomes[i].tag = ExpectedTag(uploaded_files[i].name)

C5_Witness ==
    \E i \in Processed :
        /\ uploaded_files[i].name = <<"a", ".", "H", "t", "m">>
        /\ outcomes[i].tag = "HTML"

\* C6: in every size report the converted size is the number of bytes of the
\* UTF-8 encoding of the text (one byte per character plus one, two or three
\* more for the wider characters), the original size is the size of the
\* upload, and the reduction is (1 - converted/original) * 100 when the
\* original size is positive and 0 when it is 0.
Occurrences(text, c) == Cardinality({k \in 1..Len(text) : text[k] = c})

C6_SizeReport ==
    \A i \in Processed :
        outcomes[i].kind = "report" =>
            LET report == outcomes[i]
                original == uploaded_files[i].size
            IN /\ report.converted_bytes =
                      Len(report.text) + Occurrences(report.text, "e_acute")
                      + 2 * Occurrences(report.text, "euro")
                      + 3 * Occurrences(report.text, "emoji")
               /\ report.original_size = original
               /\ IF original > 0
                  THEN /\ report.reduction.den = original
                       /\ report.reduction.num =
                              100 * original - 100 * report.converted_bytes
                  ELSE report.reduction.num = 0 /\ report.reduction.den /= 0

C6_Witness ==
    \E i, j \in Processed :
        /\ outcomes[i].kind = "report"
        /\ outcomes[i].original_size = 0
        /\ outcomes[j].kind = "report"
        /\ Occurrences(outcomes[j].text, "euro") > 0
        /\ outcomes[j].converted_bytes > Len(outcomes[j].text)

\* C7: format_file_size renders n below 1024 as n bytes, n below 1024 * 1024
\* as the nearest hundredth of n / 1024 in KB, and any larger n as the
\* nearest hundredth of n / (1024 * 1024) in MB; 500 is "500 bytes", 2048 is
\* "2.00 KB", 5 * 1024 * 1024 is "5.00 MB", and 1023, 1024, 1048575, 1048576
\* fall in bytes, KB, KB, MB.
Distance(a, b) == IF a >= b THEN a - b ELSE b - a

RendersSize(n, shown) ==
    /\ n < 1024 => shown = [unit |-> "bytes", value |-> n]
    /\ (n >= 1024 /\ n < 1048576) =>
           /\ shown.unit = "KB"
           /\ 2 * Distance(shown.value * 1024, n * 100) <= 1024
    /\ n >= 1048576 =>
           /\ shown.unit = "MB"
           /\ 2 * Distance(shown.value * 1048576, n * 100) <= 1048576
    /\ n = 500 => shown = [unit |-> "bytes", value |-> 500]
    /\ n = 2048 => shown = [unit |-> "KB", value |-> 200]
    /\ n = 5242880 => shown = [unit |-> "MB", value |-> 500]
    /\ n = 1023 => shown.unit = "bytes"
    /\ n = 1024 => shown.unit = "KB"
    /\ n = 1048575 => shown.unit = "KB"
    /\ n = 1048576 => shown.unit = "MB"

C7_FormatFileSize ==
    \A i \in Processed :
        outcomes[i].kind = "report" =>
            /\ RendersSize(outcomes[i].original_size, outcomes[i].table[1])
            /\ RendersSize(outcomes[i].converted_bytes, outcomes[i].table[2])

C7_Witness ==
    \E i \in Processed :
        /\ outcomes[i].kind = "report"
        /\ outcomes[i].original_size = 1048576
        /\ outcomes[i].table[1] = [unit |-> "MB", value |-> 100]

\* C8: the text of a well-formed PPTX is the newline-joined texts of exactly
\* the shapes that expose text, ordered by slide and then by shape.
TextShapes(slides) ==
    UNION { {<<s, h>> : h \in {n \in 1..Len(slides[s]) : slides[s][n].has_text}}
            : s \in 1..Len(slides) }

Before(p, q) == p[1] < q[1] \/ (p[1] = q[1] /\ p[2] < q[2])

InDocumentOrder(slides) ==
    LET shapes == TextShapes(slides)
    IN [k \in 1..Cardinality(shapes) |->
           LET p == CHOOSE q \in shapes :
                        Cardinality({r \in shapes : Before(r, q)}) = k - 1
           IN slides[p[1]][p[2]].text]

C8_PptxDocumentOrder ==
    \A i \in Processed :
        (outcomes[i].tag = "PPTX" /\ uploaded_files[i].parsed.ok) =>
            outcomes[i].text =
                Join(<<"\n">>, InDocumentOrder(uploaded_files[i].parsed.slides))

C8_Witness ==
    \E i \in Processed :
        /\ outcomes[i].tag = "PPTX"
        /\ uploaded_files[i].parsed.slides =
               << <<Shape(<<"b", "\n">>), Picture>>, <<Picture, Shape(<<"a">>)>> >>
        /\ outcomes[i].text = <<"b", "\n", "\n", "a">>

\* C9: the text of a well-formed PDF is the texts of the pages that yield
\* text, in page order, with "\n\n" between consecutive ones and nothing for
\* a page without text; with no text-bearing page it is empty and the file
\* gets the "no text" outcome.
TextPages(pages) == {k \in 1..Len(pages) : pages[k] /= <<>>}

RECURSIVE TotalLen(_, _)
TotalLen(pages, ks) ==
    IF ks = {} THEN 0
    ELSE LET k == CHOOSE j \in ks : TRUE
         IN Len(pages[k]) + TotalLen(pages, ks \ {k})

\* text[from..] is the pages ks in increasing order, "\n\n" between them
RECURSIVE LaidOut(_, _, _, _)
LaidOut(text, from, pages, ks) ==
    IF ks = {} THEN from = Len(text) + 1
    ELSE LET k == CHOOSE j \in ks : \A m \in ks : j <= m
             upto == from + Len(pages[k]) - 1
         IN /\ upto <= Len(text)
            /\ SubSeq(text, from, upto) = pages[k]
            /\ IF ks = {k} THEN upto = Len(text)
               ELSE /\ upto + 2 <= Len(text)
                    /\ text[upto + 1] = "\n"
                    /\ text[upto + 2] = "\n"
                    /\ LaidOut(text, upto + 3, pages, ks \ {k})

C9_PdfPages ==
    \A i \in Processed :
        (outcomes[i].tag = "PDF" /\ uploaded_files[i].parsed.ok) =>
            LET pages == uploaded_files[i].parsed.pages
                ks == TextPages(pages)
                text == outcomes[i].text
            IN /\ LaidOut(text, 1, pages, ks)
               /\ ks = {} => (text = <<>> /\ outcomes[i].kind = "no_text")
               /\ ks /= {} =>
                      Len(text) = TotalLen(pages, ks) + 2 * (Cardinality(ks) - 1)

C9_Witness ==
    \E i \in Processed :
        /\ outcomes[i].tag = "PDF"
        /\ uploaded_files[i].parsed.pages = << <<"a">>, <<>>, <<"e_acute", "b">> >>
        /\ outcomes[i].text = <<"a", "\n", "\n", "e_acute", "b">>

\* C10: every extractor is invoked on the stream at offset 0 with the whole
\* upload in it, and the original size is the byte length of the upload,
\* wherever the stream stood when the file was received.
C10_MeasuredAndRewound ==
    /\ \A k \in 1..Len(calls) :
          /\ calls[k].pos = 0
          /\ calls[k].size = uploaded_files[calls[k].doc].size
    /\ \A i \in Processed :
          outcomes[i].original_size = uploaded_files[i].size

C10_Witness ==
    \E k \in 1..Len(calls) :
        /\ uploaded_files[calls[k].doc].pos > 0
        /\ uploaded_files[calls[k].doc].pos = uploaded_files[calls[k].doc].size
        /\ calls[k].doc \in Processed
        /\ outcomes[calls[k].doc].kind = "report"

====
